---- MODULE Spec2Model ----
(***************************************************************************)
(* Model of PythonCoverCollector/BookCoverCollector.py: the identifier     *)
(* parsing of BookManagerApp.fetch_books_by_isbn, the batch loop and the   *)
(* document matching of fetch_books_by_isbns, the payload shaping of       *)
(* BookManagerApp.export_book_data, the lazy description lookup of         *)
(* BookManagerApp.load_book_data and the loop of download_covers_to_folder.*)
(*                                                                         *)
(* Python strings are sequences of one-character strings; an optional      *)
(* value (a dict key that may be missing) is <<>> or <<v>>.                *)
(***************************************************************************)
EXTENDS Integers, Sequences, FiniteSets, TLC

VARIABLES
    \* ---- identifier parsing (fetch_books_by_isbn, lines 521-540) ----
    isbn_text,      \* content of the ISBN text box
    normOutcome,    \* "pending" | "empty_input" | "no_valid" | "empty_list" | "queried"
    queried,        \* the isbn_list that fetch_books_by_isbns splits into chunks
    \* ---- fetch_books_by_isbns (lines 36-140) ----
    isbn_arg,       \* the argument of fetch_books_by_isbns
    isbn_list,      \* the local isbn_list after line 44
    i,              \* loop variable of line 50 (1-based start of the chunk)
    batch,          \* the chunk of line 51
    resp,           \* outcome of the request of the current chunk
    j,              \* number of documents of the current response already processed
    doc,            \* the document processed last (<<>> before the first)
    books,          \* the list `books`
    requests,       \* per request made so far: the chunk, len(books) before it, its outcome
    fpc,            \* "start" | "loop" | "resp" | "done"
    \* ---- BookManagerApp (lines 144-593) ----
    books_data_list,    \* self.books_data_list
    current_book_index, \* self.current_book_index
    form,               \* the Tk variables of the form and the description widget
    dialog,             \* the messagebox shown by the handler that ran last
    printed,            \* the payload printed by the handler that ran last, if any
    lookup,             \* the fetch_book_details outcome in the handler that ran last
    last_op,            \* the handler that ran last
    \* ---- download_covers_to_folder (lines 597-629) ----
    dl_list,        \* the argument books_data_list
    dl_i,           \* loop variable i of line 606 (1-based)
    percent,        \* the local `percent`: <<>> while unbound
    attempts,       \* the positions whose cover was requested, in order
    written,        \* the positions whose image file was written
    dl_log,         \* the lines printed per item
    dl_pc           \* "idle" | "start" | "loop" | "returned" | "NameError" | "UnboundLocalError"

normVars  == <<isbn_text, normOutcome, queried>>
fetchVars == <<isbn_arg, isbn_list, i, batch, resp, j, doc, books, requests, fpc>>
appVars   == <<books_data_list, current_book_index, form, dialog, printed, lookup, last_op>>
dlVars    == <<dl_list, dl_i, percent, attempts, written, dl_log, dl_pc>>

-----------------------------------------------------------------------------
(* Bounds *)
MaxLen  == 5    \* length of the text typed into the ISBN box
MaxIds  == 2    \* length of the short identifier lists passed to fetch_books_by_isbns
MaxDocs == 2    \* number of documents in one response
MaxRecords == 3 \* length of the record lists passed to download_covers_to_folder

-----------------------------------------------------------------------------
(* Strings *)
None    == <<>>
Some(v) == <<v>>

Whitespace == {" ", "\n"}

RECURSIVE LStrip(_)
LStrip(s) ==
    IF s # <<>> /\ Head(s) \in Whitespace THEN LStrip(Tail(s)) ELSE s

RECURSIVE RStrip(_)
RStrip(s) ==
    IF s # <<>> /\ s[Len(s)] \in Whitespace THEN RStrip(SubSeq(s, 1, Len(s) - 1)) ELSE s

\* str.strip()
Strip(s) == RStrip(LStrip(s))

\* str.replace('\n', ',')
ReplaceNewlines(s) == [k \in 1..Len(s) |-> IF s[k] = "\n" THEN "," ELSE s[k]]

\* str.split(','): always at least one piece
RECURSIVE SplitComma(_)
SplitComma(s) ==
    IF \A k \in 1..Len(s) : s[k] # ","
    THEN <<s>>
    ELSE LET p == CHOOSE k \in 1..Len(s) : s[k] = "," /\ \A m \in 1..(k - 1) : s[m] # ","
         IN  <<SubSeq(s, 1, p - 1)>> \o SplitComma(SubSeq(s, p + 1, Len(s)))

\* sub in s
Contains(s, sub) ==
    \E k \in 1..(Len(s) - Len(sub) + 1) : SubSeq(s, k, k + Len(sub) - 1) = sub

\* s.split(sub)[-1]: what follows the last occurrence of sub (s itself without one)
SplitLast(s, sub) ==
    IF ~Contains(s, sub)
    THEN s
    ELSE LET p == CHOOSE k \in 1..(Len(s) - Len(sub) + 1) :
                      /\ SubSeq(s, k, k + Len(sub) - 1) = sub
                      /\ \A m \in (k + 1)..(Len(s) - Len(sub) + 1) :
                             SubSeq(s, m, m + Len(sub) - 1) # sub
         IN  SubSeq(s, p + Len(sub), Len(s))

\* [f(x) for x in seq if x.strip()] with f = strip
StripNonEmpty(seq) ==
    SelectSeq([k \in 1..Len(seq) |-> Strip(seq[k])], LAMBDA x : x # <<>>)

-----------------------------------------------------------------------------
(* Identifier parsing of BookManagerApp.fetch_books_by_isbn *)

\* line 522: self.isbn_text.get("1.0", tk.END).strip()
isbn_string(text) == Strip(text)

\* line 528: the list comprehension over isbn_string.replace('\n', ',').split(',')
parse_isbn_list(s) == StripNonEmpty(SplitComma(ReplaceNewlines(s)))

\* line 44 of fetch_books_by_isbns: [isbn.strip() for isbn in isbn_list if isbn.strip()]
clean_isbn_list(l) == StripNonEmpty(l)

-----------------------------------------------------------------------------
(* fetch_books_by_isbns: documents and records *)

batch_size == 50

\* str(n) for n >= 0
RECURSIVE Digits(_)
Digits(n) ==
    LET d == <<"0", "1", "2", "3", "4", "5", "6", "7", "8", "9">>[(n % 10) + 1]
    IN  IF n < 10 THEN <<d>> ELSE Digits(n \div 10) \o <<d>>

IsbnMarker == <<"/", "i", "s", "b", "n", "/">>

\* Python truthiness of an optional string or list: missing and empty are falsy
Truthy(opt) == opt # None /\ opt[1] # <<>>

\* line 81 / 121, the condition of the conditional expression
has_description_source(d) ==
    \/ Truthy(d.first_sentence_value)
    \/ Truthy(d.first_sentence)
    \/ d.first_publish_year # None /\ d.first_publish_year[1] # 0

\* f"Published: {doc.get('first_publish_year', 'N/A')}"
published_text(d) ==
    IF d.first_publish_year = None
    THEN <<"Published: ", "N/A">>
    ELSE <<"Published: ">> \o Digits(d.first_publish_year[1])

\* doc.get('first_sentence', [published_text]): the default only for a missing key
first_sentence_or_default(d) ==
    IF d.first_sentence = None THEN <<published_text(d)>> ELSE d.first_sentence[1]

\* line 81 / 121: the argument doc.get('first_sentence', [...])[0] is evaluated
\* before doc.get('first_sentence_value', ...) is called, so an empty
\* first_sentence list raises IndexError whenever the condition is true
description_raises(d) ==
    has_description_source(d) /\ first_sentence_or_default(d) = <<>>

\* line 81 / 121: the value of 'description' when nothing is raised
description_of(d) ==
    IF has_description_source(d)
    THEN IF d.first_sentence_value # None
         THEN d.first_sentence_value[1]
         ELSE first_sentence_or_default(d)[1]
    ELSE <<"Description not available.">>

cover_url(isbn, size) ==
    <<"https://covers.openlibrary.org/b/isbn/">> \o isbn \o <<"-", size, ".jpg">>

\* lines 73-83 and 113-123: the book dict
build_book(d, isbn) ==
    [ title              |-> IF d.title = None THEN <<"Unknown Title">> ELSE d.title[1],
      authors            |-> IF d.author_name = None
                             THEN << <<"Unknown Author">> >>
                             ELSE d.author_name[1],
      cover_url_medium   |-> cover_url(isbn, "M"),
      cover_url_large    |-> cover_url(isbn, "L"),
      subjects_from_ol   |-> IF d.subject = None THEN <<>> ELSE d.subject[1],
      isbn               |-> <<isbn>>,
      openlibrary_key    |-> d.key,
      description        |-> description_of(d),
      description_loaded |-> TRUE ]

InBatch(x, b) == \E k \in 1..Len(b) : b[k] = x

\* lines 90-97: the first seed that is a str, contains '/isbn/' and whose
\* trailing token is in the batch
RECURSIVE seed_match(_, _)
seed_match(seeds, b) ==
    IF seeds = <<>> THEN None
    ELSE LET seed_item == Head(seeds)
         IN  IF /\ seed_item.isStr
                /\ Contains(seed_item.s, IsbnMarker)
                /\ InBatch(SplitLast(seed_item.s, IsbnMarker), b)
             THEN Some(SplitLast(seed_item.s, IsbnMarker))
             ELSE seed_match(Tail(seeds), b)

\* lines 102-106: the first value of doc['isbn'] that is in the batch
RECURSIVE isbn_field_match(_, _)
isbn_field_match(doc_isbns, b) ==
    IF doc_isbns = <<>> THEN None
    ELSE IF InBatch(Head(doc_isbns), b)
         THEN Some(Head(doc_isbns))
         ELSE isbn_field_match(Tail(doc_isbns), b)

\* doc.get('seed', [])
seeds_of(d) == IF d.seed = None THEN <<>> ELSE d.seed[1]

\* lines 99-106: the isbn field is read only when the seeds gave nothing, and
\* only when it is a list
direct_match(d, b) ==
    IF d.isbn.tag = "list" THEN isbn_field_match(d.isbn.items, b) ELSE None

\* mutant: the isbn field is scanned before the seeds
found_isbn_direct_first(d, b) ==
    IF direct_match(d, b) # None
    THEN direct_match(d, b)
    ELSE seed_match(seeds_of(d), b)

\* mutant: a document that names no member is given the first member of the batch
found_isbn_or_first(d, b) ==
    IF seed_match(seeds_of(d), b) # None
    THEN seed_match(seeds_of(d), b)
    ELSE IF direct_match(d, b) # None
    THEN direct_match(d, b)
    ELSE Some(b[1])

\* the first seed that is a str and contains '/isbn/', whatever its trailing token
RECURSIVE first_isbn_seed(_)
first_isbn_seed(seeds) ==
    IF seeds = <<>> THEN None
    ELSE IF Head(seeds).isStr /\ Contains(Head(seeds).s, IsbnMarker)
         THEN Some(SplitLast(Head(seeds).s, IsbnMarker))
         ELSE first_isbn_seed(Tail(seeds))

\* mutant: the seed's token is taken without the test `potential_isbn in batch`
found_isbn_unchecked_seed(d, b) ==
    IF first_isbn_seed(seeds_of(d)) # None
    THEN first_isbn_seed(seeds_of(d))
    ELSE direct_match(d, b)

\* lines 89-106: found_isbn_in_doc (None when the document is skipped)
found_isbn_in_doc(d, b) ==
    IF seed_match(seeds_of(d), b) # None
    THEN seed_match(seeds_of(d), b)
    ELSE direct_match(d, b)

-----------------------------------------------------------------------------
(* Inputs of fetch_books_by_isbns *)

SeqsUpTo(S, n) == UNION {[1..m -> S] : m \in 0..n}

\* list items as a caller may pass them: clean, padded, empty
IdTokens == {<<"1">>, <<" ", "2">>, <<>>}

ShortLists == SeqsUpTo(IdTokens, MaxIds)

\* batch_size + 1 distinct identifiers: a full chunk followed by a chunk of one
LongList == [k \in 1..(batch_size + 1) |-> Digits(k)]

InputLists == ShortLists \cup {LongList}

\* lengths around the chunk size: less than one chunk, exactly one, one more,
\* exactly two, and two full chunks with a rest
ChunkLengths ==
    {batch_size - 1, batch_size, batch_size + 1, 2 * batch_size, 2 * batch_size + 20}

\* lists of distinct identifiers of these lengths
ChunkLists == {[k \in 1..n |-> Digits(k)] : n \in ChunkLengths}

\* an identifier that is in no input list
Foreign == <<"0">>

StrSeed(s) == [isStr |-> TRUE, s |-> s]
NonStrSeed == [isStr |-> FALSE, s |-> <<>>]
WorkSeed   == StrSeed(<<"/", "w", "o", "r", "k", "s", "/", "O", "L", "1", "W">>)
IsbnSeed(x) == StrSeed(<<"/", "b", "o", "o", "k", "s">> \o IsbnMarker \o x)

IsbnList(items) == [tag |-> "list", items |-> items]
IsbnAbsent      == [tag |-> "absent", items |-> <<>>]
IsbnOther       == [tag |-> "other", items |-> <<>>]

\* the seed and isbn fields a document may carry, for chunk members A and B
MatchShapes(A, B) ==
    { [seed |-> None,                                   isbn |-> IsbnAbsent],
      [seed |-> Some(<<IsbnSeed(A)>>),                  isbn |-> IsbnList(<<B>>)],
      [seed |-> Some(<<IsbnSeed(B), IsbnSeed(A)>>),     isbn |-> IsbnList(<<A>>)],
      [seed |-> Some(<<WorkSeed, IsbnSeed(Foreign)>>),  isbn |-> IsbnList(<<Foreign, B>>)],
      [seed |-> Some(<<NonStrSeed, StrSeed(IsbnMarker \o B \o IsbnMarker \o A)>>),
                                                        isbn |-> IsbnOther],
      [seed |-> Some(<<IsbnSeed(Foreign)>>),            isbn |-> IsbnList(<<Foreign>>)],
      [seed |-> Some(<<StrSeed(A)>>),                   isbn |-> IsbnOther] }

TextV == <<"V">>
TextF == <<"F">>

\* every combination of missing, empty and filled description sources
DescShapes ==
    [ first_sentence_value : {None, Some(<<>>), Some(TextV)},
      first_sentence       : {None, Some(<<>>), Some(<<TextF>>)},
      first_publish_year   : {None, Some(1999)} ]

CoreDescShapes ==
    { ds \in DescShapes :
        /\ ds.first_sentence_value = None
        /\ \/ ds.first_sentence # None /\ ds.first_publish_year # None
           \/ ds.first_sentence = None /\ ds.first_publish_year = None }

\* a document: the fields of a search result that fetch_books_by_isbns reads.
\* A document with a title also names an author and a subject.
MkDoc(ms, ds, title, key) ==
    [ title |-> title, key |-> key, seed |-> ms.seed, isbn |-> ms.isbn,
      author_name |-> IF title = None THEN None ELSE Some(<< <<"A">>, <<"B">> >>),
      subject     |-> IF title = None THEN None ELSE Some(<< <<"S">> >>),
      first_sentence_value |-> ds.first_sentence_value,
      first_sentence       |-> ds.first_sentence,
      first_publish_year   |-> ds.first_publish_year ]

DocKey == <<"/", "w", "o", "r", "k", "s", "/", "O", "L", "1", "W">>

\* the documents a response to a short chunk b may hold: every match shape
\* with the core description shapes, every description shape on a document that
\* names A in a seed and B in its isbn field, and a document with no field at all
ShortChunkDocs(b) ==
    LET A == b[1]
        B == b[Len(b)]
        plain == [seed |-> None, isbn |-> IsbnAbsent]
        both  == [seed |-> Some(<<IsbnSeed(A)>>), isbn |-> IsbnList(<<B>>)]
    IN  {MkDoc(ms, ds, Some(<<"T">>), Some(DocKey)) :
            ms \in MatchShapes(A, B), ds \in CoreDescShapes}
        \cup {MkDoc(both, ds, Some(<<"T">>), Some(DocKey)) : ds \in DescShapes}
        \cup {MkDoc(plain, ds, None, None) : ds \in CoreDescShapes}

\* the documents a response to a long chunk may hold: one that matches no
\* member, and one that matches the last member by its isbn field, with the
\* core description shapes
FullChunkDocs(b) ==
    LET B == b[Len(b)]
    IN  {MkDoc(ms, ds, Some(<<"T">>), Some(DocKey)) :
            ms \in { [seed |-> None, isbn |-> IsbnAbsent],
                     [seed |-> Some(<<WorkSeed, IsbnSeed(Foreign)>>),
                      isbn |-> IsbnList(<<Foreign, B>>)] },
            ds \in CoreDescShapes}

\* every shape for the chunks of the short lists, the few shapes for longer chunks
DocsFor(b) == IF Len(b) > MaxIds THEN FullChunkDocs(b) ELSE ShortChunkDocs(b)

FailureKinds == {"status", "timeout", "reqexc", "badjson"}

\* what one requests.get + res.json() can give: a failure, or n documents
Responses ==
    [kind : FailureKinds, n : {0}] \cup [kind : {"ok"}, n : 0..MaxDocs]

NoResp == [kind |-> "none", n |-> 0]

-----------------------------------------------------------------------------
(* fetch_books_by_isbns: the loop *)

Min(a, b) == IF a < b THEN a ELSE b

\* line 67
is_single_pair(b, r) == Len(b) = 1 /\ r.n = 1

\* mutant: the slice takes one element too many (an inclusive upper end)
chunk_at_inclusive(l, start) == SubSeq(l, start, Min(start + batch_size, Len(l)))

\* line 51: isbn_list[i:i+batch_size], for the 1-based start i
chunk_at(l, start) == SubSeq(l, start, Min(start + batch_size - 1, Len(l)))

\* mutant: a failed request ends the loop (`break` for `continue`)
after_failed_chunk_breaks(start) == Len(isbn_list) + 1

\* lines 59-61 and 125-137: every failure of the request ends in `continue`
after_failed_chunk(start) == start + batch_size

\* lines 41-46
FetchStart ==
    /\ fpc = "start"
    /\ isbn_list' = (IF isbn_arg = <<>> THEN <<>> ELSE clean_isbn_list(isbn_arg))
    /\ fpc' = (IF isbn_list' = <<>> THEN "done" ELSE "loop")
    /\ i' = 1
    /\ UNCHANGED <<isbn_arg, batch, resp, j, doc, books, requests>>
    /\ UNCHANGED <<normVars, appVars, dlVars>>

\* lines 50-65: the next chunk is cut and requested once; the response is
\* whatever the server and the network give
Request ==
    /\ fpc = "loop"
    /\ i <= Len(isbn_list)
    /\ batch' = chunk_at(isbn_list, i)
    /\ \E r \in Responses :
          /\ resp' = r
          /\ requests' = Append(requests,
                [batch |-> batch', before |-> Len(books), kind |-> r.kind])
    /\ j' = 0
    /\ doc' = None
    /\ fpc' = "resp"
    /\ UNCHANGED <<isbn_arg, isbn_list, i, books>>
    /\ UNCHANGED <<normVars, appVars, dlVars>>

\* lines 59-61, 125-133: non-200 status, Timeout, RequestException, JSONDecodeError
SkipChunk ==
    /\ fpc = "resp"
    /\ resp.kind \in FailureKinds
    /\ i' = after_failed_chunk(i)
    /\ fpc' = "loop"
    /\ UNCHANGED <<isbn_arg, isbn_list, batch, resp, j, doc, books, requests>>
    /\ UNCHANGED <<normVars, appVars, dlVars>>

\* lines 67-84: one identifier asked, one document returned. An exception raised
\* while the dict is built is caught at line 134 and the chunk is left.
SinglePair ==
    /\ fpc = "resp"
    /\ resp.kind = "ok"
    /\ is_single_pair(batch, resp)
    /\ \E d \in DocsFor(batch) :
          /\ doc' = Some(d)
          /\ books' = (IF description_raises(d)
                       THEN books
                       ELSE Append(books, build_book(d, batch[1])))
    /\ j' = 1
    /\ i' = i + batch_size
    /\ fpc' = "loop"
    /\ UNCHANGED <<isbn_arg, isbn_list, batch, resp, requests>>
    /\ UNCHANGED <<normVars, appVars, dlVars>>

\* lines 88-124: one iteration of `for doc in docs`. An exception raised while
\* the dict is built is caught at line 134: the rest of the chunk is left.
ProcessDoc ==
    /\ fpc = "resp"
    /\ resp.kind = "ok"
    /\ ~is_single_pair(batch, resp)
    /\ j < resp.n
    /\ \E d \in DocsFor(batch) :
          LET found == found_isbn_in_doc(d, batch)
          IN  /\ doc' = Some(d)
              /\ IF found = None
                 THEN /\ books' = books
                      /\ UNCHANGED <<i, fpc>>
                 ELSE IF description_raises(d)
                 THEN /\ books' = books
                      /\ i' = i + batch_size
                      /\ fpc' = "loop"
                 ELSE /\ books' = Append(books, build_book(d, found[1]))
                      /\ UNCHANGED <<i, fpc>>
    /\ j' = j + 1
    /\ UNCHANGED <<isbn_arg, isbn_list, batch, resp, requests>>
    /\ UNCHANGED <<normVars, appVars, dlVars>>

\* the end of `for doc in docs`: on to the next chunk
EndChunk ==
    /\ fpc = "resp"
    /\ resp.kind = "ok"
    /\ ~is_single_pair(batch, resp)
    /\ j = resp.n
    /\ i' = i + batch_size
    /\ fpc' = "loop"
    /\ UNCHANGED <<isbn_arg, isbn_list, batch, resp, j, doc, books, requests>>
    /\ UNCHANGED <<normVars, appVars, dlVars>>

\* lines 139-140
Return ==
    /\ fpc = "loop"
    /\ i > Len(isbn_list)
    /\ fpc' = "done"
    /\ UNCHANGED <<isbn_arg, isbn_list, i, batch, resp, j, doc, books, requests>>
    /\ UNCHANGED <<normVars, appVars, dlVars>>

-----------------------------------------------------------------------------
(* The identifier text of the app's fetch action, down to the list that
   fetch_books_by_isbns cuts into chunks *)

TextChars == {"1", "2", ",", " ", "\n"}

RawTexts == SeqsUpTo(TextChars, MaxLen)

\* lines 521-532 of BookManagerApp.fetch_books_by_isbn, then lines 41-46 of
\* fetch_books_by_isbns
NormParse ==
    /\ normOutcome = "pending"
    /\ LET s == isbn_string(isbn_text)
           l == parse_isbn_list(s)
       IN  IF s = <<>>
           THEN normOutcome' = "empty_input" /\ queried' = <<>>
           ELSE IF l = <<>>
           THEN normOutcome' = "no_valid" /\ queried' = <<>>
           ELSE IF clean_isbn_list(l) = <<>>
           THEN normOutcome' = "empty_list" /\ queried' = <<>>
           ELSE normOutcome' = "queried" /\ queried' = clean_isbn_list(l)
    /\ UNCHANGED isbn_text
    /\ UNCHANGED <<fetchVars, appVars, dlVars>>

-----------------------------------------------------------------------------
(* BookManagerApp: numbers typed into the form *)

DigitChars == {"0", "1", "2", "3", "4", "5", "6", "7", "8", "9"}

DigitValue(c) == CHOOSE v \in 0..9 : Digits(v) = <<c>>

AllDigits(s) == s # <<>> /\ \A k \in 1..Len(s) : s[k] \in DigitChars

RECURSIVE DigitsValue(_)
DigitsValue(s) ==
    IF s = <<>> THEN 0
    ELSE 10 * DigitsValue(SubSeq(s, 1, Len(s) - 1)) + DigitValue(s[Len(s)])

\* s without one leading sign
Unsigned(s) == IF s # <<>> /\ Head(s) \in {"-", "+"} THEN Tail(s) ELSE s

\* int(s) does not raise ValueError: optional whitespace, optional sign, digits
IsIntLiteral(s) == AllDigits(Unsigned(Strip(s)))

\* int(s), for an s that int() accepts
IntValue(s) ==
    LET t == Strip(s)
    IN  IF Head(t) = "-" THEN 0 - DigitsValue(Tail(t)) ELSE DigitsValue(Unsigned(t))

\* the digits of s before and after its only '.', for a decimal literal
IntPart(s)  == IF \E k \in 1..Len(s) : s[k] = "."
               THEN SubSeq(s, 1, (CHOOSE k \in 1..Len(s) : s[k] = ".") - 1)
               ELSE s
FracPart(s) == IF \E k \in 1..Len(s) : s[k] = "."
               THEN SubSeq(s, (CHOOSE k \in 1..Len(s) : s[k] = ".") + 1, Len(s))
               ELSE <<>>

\* float(s) does not raise ValueError, for the decimal notation: optional
\* whitespace, optional sign, digits with at most one '.', at least one digit
IsFloatLiteral(s) ==
    LET t == Unsigned(Strip(s))
    IN  /\ Cardinality({k \in 1..Len(t) : t[k] = "."}) <= 1
        /\ \A k \in 1..Len(t) : t[k] \in DigitChars \cup {"."}
        /\ \E k \in 1..Len(t) : t[k] \in DigitChars

\* s without its trailing zeros
RECURSIVE DropTrailingZeros(_)
DropTrailingZeros(s) ==
    IF s # <<>> /\ s[Len(s)] = "0" THEN DropTrailingZeros(SubSeq(s, 1, Len(s) - 1)) ELSE s

\* float(s) for a decimal literal: sign, whole part and decimals (zero is unsigned)
FloatValue(s) ==
    LET t == Strip(s)
        u == Unsigned(t)
        w == DigitsValue(IntPart(u))
        f == DropTrailingZeros(FracPart(u))
    IN  [neg |-> Head(t) = "-" /\ (w # 0 \/ f # <<>>), whole |-> w, frac |-> f]

\* 0.0
FloatZero == [neg |-> FALSE, whole |-> 0, frac |-> <<>>]

-----------------------------------------------------------------------------
(* BookManagerApp: the form and export_book_data *)

\* lines 167-184, 367-386 and 573-592: the start values of the form fields
DefaultForm ==
    [ title                  |-> <<>>,
      author                 |-> <<>>,
      description            |-> <<>>,
      condition              |-> "Good",
      book_type              |-> "For Sale",
      status                 |-> "available",
      users_permissions_user |-> <<>>,
      price                  |-> <<>>,
      subject_for_strapi     |-> <<>>,
      course                 |-> <<>>,
      exchange               |-> <<>>,
      featured               |-> FALSE,
      book_of_week           |-> FALSE,
      book_of_year           |-> FALSE,
      display_title          |-> <<>>,
      display_strapi         |-> FALSE,
      rating                 |-> 0,
      categories_strapi_ids  |-> <<>>,
      cover_strapi_id        |-> <<>> ]

Dialog(level, title, text, literal) ==
    [level |-> level, title |-> title, text |-> text, literal |-> literal]

NoDialog == Dialog("none", "", "", None)

\* line 448
NoBookError ==
    Dialog("error", "Error", "No book data loaded or selected to export.", None)

\* line 474
OwnerRequiredWarning ==
    Dialog("warning", "Input Error", "Strapi User ID (owner) is required.", None)

\* mutant: the ValueError is caught and the handler returns without a dialog
invalid_number_unreported(rejected) == NoDialog

\* line 497: the text of the ValueError ends with the repr of the rejected string
InvalidNumberError(rejected) ==
    Dialog("error", "Input Error",
           "Invalid number format for User ID, Price, Categories, or Cover ID: ",
           Some(rejected))

\* line 519
ExportedInfo ==
    Dialog("info", "Exported", "Book data for Strapi printed to console.", None)

\* line 447
nothing_to_export(bl, idx) == bl = <<>> \/ idx = -1

\* mutant: an empty owner id is not checked for
owner_missing_unchecked(f) == FALSE

\* lines 470-475: `if user_id_str: ... else: showwarning; return`
owner_missing(f) == f.users_permissions_user = <<>>

\* mutant: the price is set whenever the price field is filled
price_included_when_filled(f) == f.price # <<>>

\* line 479
price_included(f) == f.book_type = "For Sale"

\* lines 480-483: float(price_str), or 0.0 for an empty field
price_value(f) == IF f.price # <<>> THEN FloatValue(f.price) ELSE FloatZero

\* line 490: the tokens that pass `if cat_id.strip()`, stripped
category_tokens(f) == StripNonEmpty(SplitComma(f.categories_strapi_ids))

RECURSIVE first_rejected(_)
first_rejected(tokens) ==
    IF tokens = <<>> THEN None
    ELSE IF ~IsIntLiteral(Head(tokens)) THEN Some(Head(tokens))
    ELSE first_rejected(Tail(tokens))

RECURSIVE IntLiteralsOf(_)
IntLiteralsOf(tokens) ==
    IF tokens = <<>> THEN <<>>
    ELSE IF IsIntLiteral(Head(tokens))
         THEN <<IntValue(Head(tokens))>> \o IntLiteralsOf(Tail(tokens))
         ELSE IntLiteralsOf(Tail(tokens))

\* mutant: a token that is no integer is skipped
categories_skipping_rejected(f) ==
    [rejected |-> None, value |-> IntLiteralsOf(category_tokens(f))]

\* line 490: [int(cat_id.strip()) for cat_id in categories_str.split(',') if
\* cat_id.strip()]: the token at which int() raises ValueError, if any, and the
\* list otherwise
parsed_categories(f) ==
    IF first_rejected(category_tokens(f)) # None
    THEN [rejected |-> first_rejected(category_tokens(f)), value |-> <<>>]
    ELSE [rejected |-> None, value |-> IntLiteralsOf(category_tokens(f))]

\* lines 488-490: the comprehension runs only for a non-empty field
rejected_category(f) ==
    IF f.categories_strapi_ids = <<>> THEN None ELSE parsed_categories(f).rejected

\* lines 469-498: the first string at which int() or float() raises ValueError
rejected_number(f) ==
    IF ~IsIntLiteral(f.users_permissions_user)
    THEN Some(f.users_permissions_user)
    ELSE IF price_included(f) /\ f.price # <<>> /\ ~IsFloatLiteral(f.price)
    THEN Some(f.price)
    ELSE IF rejected_category(f) # None
    THEN rejected_category(f)
    ELSE IF f.cover_strapi_id # <<>> /\ ~IsIntLiteral(f.cover_strapi_id)
    THEN Some(f.cover_strapi_id)
    ELSE None

Entry(cond, key, val) == IF cond THEN key :> val ELSE <<>>

\* lines 454-508: data_payload once every conversion has succeeded
data_payload(f) ==
    [ title       |-> f.title,
      author      |-> f.author,
      condition   |-> f.condition,
      bookType    |-> f.book_type,
      status      |-> f.status,
      description |-> Strip(f.description),
      featured    |-> f.featured,
      bookOfWeek  |-> f.book_of_week,
      bookOfYear  |-> f.book_of_year,
      Display     |-> f.display_strapi,
      rating      |-> f.rating,
      users_permissions_user |-> IntValue(f.users_permissions_user) ]
    @@ Entry(price_included(f), "price", price_value(f))
    @@ Entry(f.categories_strapi_ids # <<>>, "categories", parsed_categories(f).value)
    @@ Entry(f.cover_strapi_id # <<>>, "cover", IntValue(f.cover_strapi_id))
    @@ Entry(f.subject_for_strapi # <<>>, "subject", f.subject_for_strapi)
    @@ Entry(f.course # <<>>, "course", f.course)
    @@ Entry(f.book_type = "For Swap" /\ f.exchange # <<>>, "exchange", f.exchange)
    @@ Entry(f.display_title # <<>>, "displayTitle", f.display_title)

\* lines 446-519: the dialog shown and the JSON printed, if any
export_result(bl, idx, f) ==
    IF nothing_to_export(bl, idx)
    THEN [dialog |-> NoBookError, printed |-> None]
    ELSE IF owner_missing(f)
    THEN [dialog |-> OwnerRequiredWarning, printed |-> None]
    ELSE IF rejected_number(f) # None
    THEN [dialog |-> InvalidNumberError(rejected_number(f)[1]), printed |-> None]
    ELSE [dialog |-> ExportedInfo, printed |-> Some([data |-> data_payload(f)])]

\* export_book_data, the command of the "Export Data for Strapi" button
ExportBookData ==
    /\ dialog' = export_result(books_data_list, current_book_index, form).dialog
    /\ printed' = export_result(books_data_list, current_book_index, form).printed
    /\ lookup' = "none"
    /\ last_op' = "export"
    /\ UNCHANGED <<books_data_list, current_book_index, form>>
    /\ UNCHANGED <<normVars, fetchVars, dlVars>>

-----------------------------------------------------------------------------
(* BookManagerApp: load_book_data and the navigation *)

\* ", ".join(l)
RECURSIVE JoinComma(_)
JoinComma(l) ==
    IF l = <<>> THEN <<>>
    ELSE IF Len(l) = 1 THEN l[1]
    ELSE l[1] \o <<", ">> \o JoinComma(Tail(l))

\* what the detail request can give: a 200 whose description is a str, a dict
\* with "value" or anything else, another status, a RequestException
DetailResponses == {"ok_str", "ok_dict", "ok_other", "status", "exception"}

DetailFailures == {"no_key", "status", "exception"}

\* lines 12-34: which way fetch_book_details ends for this key and response
detail_outcome(book_key, net) == IF book_key = None THEN "no_key" ELSE net

\* lines 12-34: the returned (details, error_msg); details is the description
fetch_book_details(book_key, net) ==
    LET o == detail_outcome(book_key, net)
    IN  IF o = "no_key"    THEN [details |-> None, error |-> <<"No key provided">>]
        ELSE IF o = "ok_str"    THEN [details |-> Some(<<"D">>), error |-> None]
        ELSE IF o = "ok_dict"   THEN [details |-> Some(<<"DV">>), error |-> None]
        ELSE IF o = "ok_other"  THEN [details |-> Some(<<"Not available.">>), error |-> None]
        ELSE IF o = "status"
        THEN [details |-> None,
              error |-> <<"Failed to fetch details, status: ">> \o Digits(404)]
        ELSE [details |-> None, error |-> <<"Request exception for details: ", "e">>]

\* mutant: the record is marked as loaded only when the lookup gave a description
loaded_flag_only_on_success(r) == r.details # None

\* line 360: book["description_loaded"] = True, whatever the lookup gave
loaded_flag_after_lookup(r) == TRUE

\* lines 355-360: the record after the lookup
book_after_lookup(book, r) ==
    [book EXCEPT
        !.description = IF r.details # None
                        THEN r.details[1]
                        ELSE <<"Error fetching description: ">> \o r.error,
        !.description_loaded = loaded_flag_after_lookup(r)]

index_valid(bl, index) == bl # <<>> /\ 0 <= index /\ index < Len(bl)

\* lines 349-364: the record shown, looked up first when it is not loaded yet
book_shown(book, net) ==
    IF book.description_loaded
    THEN book
    ELSE book_after_lookup(book, fetch_book_details(book.openlibrary_key, net))

\* lines 344-386: the form after load_book_data has filled it for this record
form_for(book) ==
    [DefaultForm EXCEPT
        !.title = book.title,
        !.author = JoinComma(book.authors),
        !.description = book.description,
        !.subject_for_strapi = IF book.subjects_from_ol # <<>>
                               THEN book.subjects_from_ol[1]
                               ELSE <<>>]

\* lines 321-390: load_book_data(index) as a change of the app's state; net is
\* the response the detail request would get. The labels, the cover image and
\* the button states are not part of the state.
load_book_data(bl, cur, index, net) ==
    IF ~index_valid(bl, index)
    THEN [books_data_list |-> bl, current_book_index |-> cur,
          form |-> DefaultForm, lookup |-> "none"]
    ELSE LET book == bl[index + 1]
         IN  [books_data_list |-> [bl EXCEPT ![index + 1] = book_shown(book, net)],
              current_book_index |-> index,
              form |-> form_for(book_shown(book, net)),
              lookup |-> IF book.description_loaded
                         THEN "none"
                         ELSE detail_outcome(book.openlibrary_key, net)]

\* the responses the detail request of load_book_data(index) can get: a request
\* is made only for a valid index, a record not loaded yet and a key (lines 14, 349)
DetailNets(bl, index) ==
    IF /\ index_valid(bl, index)
       /\ ~bl[index + 1].description_loaded
       /\ bl[index + 1].openlibrary_key # None
    THEN DetailResponses
    ELSE {"not_requested"}

Loaded(r) ==
    /\ books_data_list' = r.books_data_list
    /\ current_book_index' = r.current_book_index
    /\ form' = r.form
    /\ lookup' = r.lookup

NavDialog(text) == Dialog("info", "Navigation", text, None)

\* mutant: the last record counts as having a next one (`<=` for `<`)
has_next_off_by_one(bl, idx) == idx <= Len(bl) - 1

\* line 428
has_next(bl, idx) == idx < Len(bl) - 1

\* lines 424-433; line 430 advances the index before load_book_data is called
NextBook ==
    /\ last_op' = "next"
    /\ printed' = None
    /\ IF books_data_list = <<>>
       THEN /\ dialog' = NavDialog("No books loaded. Fetch books by ISBN first.")
            /\ lookup' = "none"
            /\ UNCHANGED <<books_data_list, current_book_index, form>>
       ELSE IF has_next(books_data_list, current_book_index)
       THEN /\ dialog' = NoDialog
            /\ \E net \in DetailNets(books_data_list, current_book_index + 1) :
                  Loaded(load_book_data(books_data_list, current_book_index + 1,
                                        current_book_index + 1, net))
       ELSE /\ dialog' = NavDialog("This is the last book.")
            /\ lookup' = "none"
            /\ UNCHANGED <<books_data_list, current_book_index, form>>
    /\ UNCHANGED <<normVars, fetchVars, dlVars>>

\* lines 435-444
PrevBook ==
    /\ last_op' = "prev"
    /\ printed' = None
    /\ IF books_data_list = <<>>
       THEN /\ dialog' = NavDialog("No books loaded. Fetch books by ISBN first.")
            /\ lookup' = "none"
            /\ UNCHANGED <<books_data_list, current_book_index, form>>
       ELSE IF current_book_index > 0
       THEN /\ dialog' = NoDialog
            /\ \E net \in DetailNets(books_data_list, current_book_index - 1) :
                  Loaded(load_book_data(books_data_list, current_book_index - 1,
                                        current_book_index - 1, net))
       ELSE /\ dialog' = NavDialog("This is the first book.")
            /\ lookup' = "none"
            /\ UNCHANGED <<books_data_list, current_book_index, form>>
    /\ UNCHANGED <<normVars, fetchVars, dlVars>>

-----------------------------------------------------------------------------
(* BookManagerApp: fetch_books_by_isbn *)

\* lines 88-124 as a whole: the records of the documents, up to the first
\* document whose dict raises
RECURSIVE process_docs(_, _)
process_docs(docs, b) ==
    IF docs = <<>> THEN <<>>
    ELSE LET d == Head(docs)
             found == found_isbn_in_doc(d, b)
         IN  IF found = None THEN process_docs(Tail(docs), b)
             ELSE IF description_raises(d) THEN <<>>
             ELSE <<build_book(d, found[1])>> \o process_docs(Tail(docs), b)

\* lines 56-137 as a whole: the records one chunk adds, for a response r that
\* carries its documents
chunk_books(b, r) ==
    IF r.kind \in FailureKinds THEN <<>>
    ELSE IF Len(b) = 1 /\ Len(r.docs) = 1
    THEN IF description_raises(r.docs[1]) THEN <<>> ELSE <<build_book(r.docs[1], b[1])>>
    ELSE process_docs(r.docs, b)

\* lines 36-140 as a whole, for a list of at most one chunk
fetch_books_by_isbns(l, r) ==
    IF l = <<>> \/ clean_isbn_list(l) = <<>>
    THEN <<>>
    ELSE chunk_books(chunk_at(clean_isbn_list(l), 1), r)

\* the texts typed into the ISBN box of the app
AppTexts ==
    { <<>>, <<" ">>, <<",", "\n">>, <<"1">>, <<"1", "\n", "2">> }

\* the documents of a response in the app: matched by the isbn field, by a seed,
\* not matched, and one whose description raises
AppDocs(b) ==
    LET A == b[1]
        B == b[Len(b)]
        na  == [first_sentence_value |-> None, first_sentence |-> None,
                first_publish_year |-> None]
        bad == [first_sentence_value |-> None, first_sentence |-> Some(<<>>),
                first_publish_year |-> Some(1999)]
    IN  { MkDoc([seed |-> None, isbn |-> IsbnList(<<B>>)], na, Some(<<"T">>), Some(DocKey)),
          MkDoc([seed |-> Some(<<IsbnSeed(A)>>), isbn |-> IsbnAbsent], na, None, None),
          MkDoc([seed |-> None, isbn |-> IsbnAbsent], na, None, None),
          MkDoc([seed |-> None, isbn |-> IsbnList(<<A>>)], bad, None, None) }

AppResponses(b) ==
    [kind : FailureKinds, docs : {<<>>}]
    \cup [kind : {"ok"}, docs : SeqsUpTo(AppDocs(b), MaxDocs)]

InputWarning(text) == Dialog("warning", "Input Error", text, None)

\* mutant: the parsed list is passed on without the test of line 530
no_valid_isbns_unchecked(l) == FALSE

\* line 530: `if not isbn_list`
no_valid_isbns(l) == l = <<>>

\* the response of the one request fetch_books_by_isbns makes for l; an empty
\* list returns at line 42 or 46 before any request
NoAppResponse == [kind |-> "ok", docs |-> <<>>]

AppResponsesFor(l) ==
    IF l = <<>> \/ clean_isbn_list(l) = <<>>
    THEN {NoAppResponse}
    ELSE AppResponses(chunk_at(clean_isbn_list(l), 1))

\* lines 521-563, the command of the "Fetch Books" button
FetchBooksByIsbn ==
    /\ last_op' = "fetch"
    /\ printed' = None
    /\ \E text \in AppTexts :
          LET s == isbn_string(text)
              l == parse_isbn_list(s)
          IN  /\ isbn_text' = text
              /\ normOutcome' = (IF s = <<>> THEN "empty_input"
                                 ELSE IF no_valid_isbns(l) THEN "no_valid"
                                 ELSE IF l = <<>> \/ clean_isbn_list(l) = <<>>
                                 THEN "empty_list"
                                 ELSE "queried")
              /\ queried' = (IF normOutcome' = "queried" THEN clean_isbn_list(l) ELSE <<>>)
              /\ IF s = <<>>
                 THEN /\ dialog' = InputWarning("Please enter one or more ISBNs.")
                      /\ lookup' = "none"
                      /\ UNCHANGED <<books_data_list, current_book_index, form>>
                 ELSE IF no_valid_isbns(l)
                 THEN /\ dialog' = InputWarning("No valid ISBNs entered after parsing.")
                      /\ lookup' = "none"
                      /\ UNCHANGED <<books_data_list, current_book_index, form>>
                 ELSE \E r \in AppResponsesFor(l) :
                         LET fetched_books == fetch_books_by_isbns(l, r)
                         IN  IF fetched_books # <<>>
                             THEN /\ dialog' = Dialog("info", "Success",
                                                      "Successfully fetched {n} book(s).",
                                                      Some(Digits(Len(fetched_books))))
                                  /\ \E net \in DetailNets(fetched_books, 0) :
                                        Loaded(load_book_data(fetched_books, 0, 0, net))
                             ELSE /\ dialog' = Dialog("warning", "Not Found",
                                                      "No books found for the provided ISBN(s).",
                                                      None)
                                  /\ books_data_list' = <<>>
                                  /\ current_book_index' = -1
                                  /\ form' = DefaultForm
                                  /\ lookup' = "none"
    /\ UNCHANGED <<fetchVars, dlVars>>

-----------------------------------------------------------------------------
(* BookManagerApp: what the operator types into the form *)

OwnerInputs == {<<>>, <<" ", "7">>, <<"x">>}
PriceInputs == {<<>>, <<"9", ".", "5">>, <<" ">>, <<"x">>}
CoverInputs == {<<>>, <<"3">>, <<"-", "3">>, <<"1", ".", "5">>}
TypeInputs  == {"For Sale", "For Swap"}

CategoryChars == {"1", "2", ",", " ", "x"}

MaxCatLen == 3

\* every short text, and the two examples of the specification
CategoryInputs ==
    SeqsUpTo(CategoryChars, MaxCatLen)
    \cup { <<"1", ",", " ", "2", ",", "x">>, <<"1", ",", "2">> }

\* the optional text fields: all empty, all filled
OptionalInputs ==
    { [subject_for_strapi |-> <<>>, course |-> <<>>, exchange |-> <<>>,
       display_title |-> <<>>],
      [subject_for_strapi |-> <<"S">>, course |-> <<"C">>, exchange |-> <<"E">>,
       display_title |-> <<"DT">>] }

Typed(f, owner, type, price, cats, cover, opt) ==
    [f EXCEPT !.users_permissions_user = owner,
              !.book_type = type,
              !.price = price,
              !.categories_strapi_ids = cats,
              !.cover_strapi_id = cover,
              !.subject_for_strapi = opt.subject_for_strapi,
              !.course = opt.course,
              !.exchange = opt.exchange,
              !.display_title = opt.display_title]

\* what the operator types while browsing: a form that exports, and forms with
\* one or several fields that export_book_data rejects
Filling(owner, type, price, cats, cover) ==
    [owner |-> owner, type |-> type, price |-> price, cats |-> cats, cover |-> cover]

AppFillings ==
    { Filling(<<" ", "7">>, "For Sale", <<>>, <<"1", ",", "2">>, <<"3">>),
      Filling(<<" ", "7">>, "For Swap", <<"9", ".", "5">>, <<",">>, <<>>),
      Filling(<<>>, "For Sale", <<"x">>, <<"x">>, <<"1", ".", "5">>),
      Filling(<<"x">>, "For Sale", <<>>, <<>>, <<>>),
      Filling(<<" ", "7">>, "For Sale", <<"x">>, <<>>, <<>>),
      Filling(<<" ", "7">>, "For Sale", <<>>, <<"1", ",", "x">>, <<>>),
      Filling(<<" ", "7">>, "For Sale", <<>>, <<>>, <<"1", ".", "5">>) }

\* the operator fills in the fields that export_book_data converts
EditForm ==
    /\ last_op' = "edit"
    /\ \E t \in AppFillings :
          form' = [form EXCEPT !.users_permissions_user = t.owner,
                               !.book_type = t.type,
                               !.price = t.price,
                               !.categories_strapi_ids = t.cats,
                               !.cover_strapi_id = t.cover]
    /\ dialog' = NoDialog
    /\ printed' = None
    /\ lookup' = "none"
    /\ UNCHANGED <<books_data_list, current_book_index>>
    /\ UNCHANGED <<normVars, fetchVars, dlVars>>

-----------------------------------------------------------------------------
(* The discovery flow: records that arrive without a description *)

\* a record of the fetch-by-subject-sample flow: a raw cover id, the description
\* not populated, description_loaded false
sample_book(key) ==
    [ title              |-> <<"T">>,
      authors            |-> << <<"A">> >>,
      cover_url_medium   |-> cover_url(<<"1">>, "M"),
      cover_url_large    |-> cover_url(<<"1">>, "L"),
      subjects_from_ol   |-> <<>>,
      isbn               |-> << <<"1">> >>,
      cover_i            |-> 1,
      openlibrary_key    |-> key,
      description        |-> <<>>,
      description_loaded |-> FALSE ]

SampleLists == SeqsUpTo({sample_book(None), sample_book(Some(DocKey))}, MaxDocs) \ {<<>>}

\* the app is handed a sampled list and shows its first record
StartWithSample ==
    /\ last_op = "init"
    /\ last_op' = "sample"
    /\ dialog' = NoDialog
    /\ printed' = None
    /\ \E bl \in SampleLists :
          \E net \in DetailNets(bl, 0) : Loaded(load_book_data(bl, 0, 0, net))
    /\ UNCHANGED <<normVars, fetchVars, dlVars>>

-----------------------------------------------------------------------------
(* download_covers_to_folder *)

\* lines 1-8: the module imports requests, os, json, io, traceback, tkinter and
\* PIL; the name `time` used at line 628 is bound nowhere in the module
time_is_imported == FALSE

\* the outcome of requests.get(cover_url, timeout=15) and of res.status_code
DownloadOutcomes == {"200", "status", "timeout", "reqexc"}

CoverUrl == <<"https://covers.openlibrary.org/b/isbn/", "1", "-", "L", ".jpg">>

\* a record as the function reads it: the key cover_url_large missing, empty or set
DownloadRecords == [cover_url_large : {None, Some(<<>>), Some(CoverUrl)}]

DownloadLists == SeqsUpTo(DownloadRecords, MaxRecords)

\* line 607-608: book.get("cover_url_large") is truthy
has_cover_url(book) == Truthy(book.cover_url_large)

\* line 614: int((i / total) * 100)
percent_of(n, total) == (n * 100) \div total

\* line 628, time.sleep(0.05): where the iteration goes after its try statement
after_sleep == IF time_is_imported THEN "loop" ELSE "NameError"

\* lines 598-605
DownloadStart ==
    /\ dl_pc = "start"
    /\ dl_pc' = (IF dl_list = <<>> THEN "returned" ELSE "loop")
    /\ dl_i' = 1
    /\ UNCHANGED <<dl_list, percent, attempts, written, dl_log>>
    /\ UNCHANGED <<normVars, fetchVars, appVars>>

\* lines 607-610: a record without a cover URL is skipped by `continue`
DownloadSkip ==
    /\ dl_pc = "loop"
    /\ dl_i <= Len(dl_list)
    /\ ~has_cover_url(dl_list[dl_i])
    /\ dl_log' = Append(dl_log, [item |-> dl_i, line |-> "skipping", percent |-> None])
    /\ dl_i' = dl_i + 1
    /\ UNCHANGED <<dl_list, percent, attempts, written, dl_pc>>
    /\ UNCHANGED <<normVars, fetchVars, appVars>>

\* lines 612-628: one iteration for a record that has a cover URL. A response
\* binds percent and is logged; an exception of requests.get is handled by a
\* print that reads percent, which raises UnboundLocalError when no earlier
\* iteration has bound it. The iteration ends with time.sleep.
DownloadAttempt ==
    /\ dl_pc = "loop"
    /\ dl_i <= Len(dl_list)
    /\ has_cover_url(dl_list[dl_i])
    /\ attempts' = Append(attempts, dl_i)
    /\ \E outcome \in DownloadOutcomes :
          IF outcome \in {"200", "status"}
          THEN /\ percent' = Some(percent_of(dl_i, Len(dl_list)))
               /\ written' = (IF outcome = "200" THEN written \cup {dl_i} ELSE written)
               /\ dl_log' = Append(dl_log,
                     [item |-> dl_i,
                      line |-> IF outcome = "200" THEN "downloaded" ELSE "failed",
                      percent |-> percent'])
               /\ dl_pc' = after_sleep
          ELSE /\ UNCHANGED <<percent, written>>
               /\ IF percent = None
                  THEN /\ dl_pc' = "UnboundLocalError"
                       /\ dl_log' = dl_log
                  ELSE /\ dl_pc' = after_sleep
                       /\ dl_log' = Append(dl_log,
                             [item |-> dl_i,
                              line |-> IF outcome = "timeout" THEN "timeout" ELSE "error",
                              percent |-> percent])
    /\ dl_i' = (IF dl_pc' = "loop" THEN dl_i + 1 ELSE dl_i)
    /\ UNCHANGED dl_list
    /\ UNCHANGED <<normVars, fetchVars, appVars>>

\* line 629: the loop is over
DownloadFinish ==
    /\ dl_pc = "loop"
    /\ dl_i > Len(dl_list)
    /\ dl_pc' = "returned"
    /\ UNCHANGED <<dl_list, dl_i, percent, attempts, written, dl_log>>
    /\ UNCHANGED <<normVars, fetchVars, appVars>>

DlIdle ==
    /\ dl_list = <<>>
    /\ dl_i = 1
    /\ percent = None
    /\ attempts = <<>>
    /\ written = {}
    /\ dl_log = <<>>
    /\ dl_pc = "idle"

-----------------------------------------------------------------------------
(* Specifications *)

vars == <<normVars, fetchVars, appVars, dlVars>>

\* lines 151-155: the app as constructed
AppConstructed ==
    /\ books_data_list = <<>>
    /\ current_book_index = -1
    /\ form = DefaultForm
    /\ dialog = NoDialog
    /\ printed = None
    /\ lookup = "none"
    /\ last_op = "init"

NormIdle ==
    /\ isbn_text = <<>>
    /\ normOutcome = "idle"
    /\ queried = <<>>

FetchInit ==
    /\ isbn_arg \in InputLists
    /\ isbn_list = <<>>
    /\ i = 1
    /\ batch = <<>>
    /\ resp = NoResp
    /\ j = 0
    /\ doc = None
    /\ books = <<>>
    /\ requests = <<>>
    /\ fpc = "start"
    /\ NormIdle
    /\ AppConstructed
    /\ DlIdle

FetchNext ==
    \/ FetchStart
    \/ Request
    \/ SkipChunk
    \/ SinglePair
    \/ ProcessDoc
    \/ EndChunk
    \/ Return

\* fetch_books_by_isbns called on any of the input lists
SpecFetch == FetchInit /\ [][FetchNext]_vars

ChunksInit ==
    /\ isbn_arg \in ChunkLists
    /\ isbn_list = <<>>
    /\ i = 1
    /\ batch = <<>>
    /\ resp = NoResp
    /\ j = 0
    /\ doc = None
    /\ books = <<>>
    /\ requests = <<>>
    /\ fpc = "start"
    /\ NormIdle
    /\ AppConstructed
    /\ DlIdle

\* fetch_books_by_isbns called on lists of one to three chunks
SpecChunks == ChunksInit /\ [][FetchNext]_vars

FetchIdle ==
    /\ isbn_arg = <<>>
    /\ isbn_list = <<>>
    /\ i = 1
    /\ batch = <<>>
    /\ resp = NoResp
    /\ j = 0
    /\ doc = None
    /\ books = <<>>
    /\ requests = <<>>
    /\ fpc = "idle"

NormInit ==
    /\ isbn_text \in RawTexts
    /\ normOutcome = "pending"
    /\ queried = <<>>
    /\ FetchIdle
    /\ AppConstructed
    /\ DlIdle

NormNext == NormParse

\* the operator types any text and presses "Fetch Books"
SpecNorm == NormInit /\ [][NormNext]_vars


\* a record as fetch_books_by_isbns builds it
ExportBook ==
    build_book(MkDoc([seed |-> None, isbn |-> IsbnAbsent],
                     [first_sentence_value |-> None, first_sentence |-> None,
                      first_publish_year |-> None],
                     Some(<<"T">>), Some(DocKey)),
               <<"1">>)

\* no record or one record on display, and the form as the operator has typed
\* over it
ExportInit ==
    /\ books_data_list \in {<<>>, <<ExportBook>>}
    /\ current_book_index = Len(books_data_list) - 1
    /\ \E owner \in OwnerInputs, type \in TypeInputs, price \in PriceInputs,
          cats \in CategoryInputs, cover \in CoverInputs, opt \in OptionalInputs :
          form = Typed(IF books_data_list = <<>> THEN DefaultForm ELSE form_for(ExportBook),
                       owner, type, price, cats, cover, opt)
    /\ dialog = NoDialog
    /\ printed = None
    /\ lookup = "none"
    /\ last_op = "edit"
    /\ NormIdle
    /\ FetchIdle
    /\ DlIdle

ExportNext == ExportBookData

\* export_book_data pressed on any filled-in form
SpecExport == ExportInit /\ [][ExportNext]_vars

AppInit == AppConstructed /\ NormIdle /\ FetchIdle /\ DlIdle

AppNext ==
    \/ FetchBooksByIsbn
    \/ NextBook
    \/ PrevBook
    \/ EditForm
    \/ ExportBookData

\* the app from its construction on
SpecApp == AppInit /\ [][AppNext]_vars

DownloadInit ==
    /\ dl_list \in DownloadLists
    /\ dl_i = 1
    /\ percent = None
    /\ attempts = <<>>
    /\ written = {}
    /\ dl_log = <<>>
    /\ dl_pc = "start"
    /\ NormIdle
    /\ FetchIdle
    /\ AppConstructed

DownloadNext ==
    \/ DownloadStart
    \/ DownloadSkip
    \/ DownloadAttempt
    \/ DownloadFinish

\* download_covers_to_folder called on any record list
SpecDownload == DownloadInit /\ [][DownloadNext]_vars

SampleNext ==
    \/ StartWithSample
    \/ NextBook
    \/ PrevBook
    \/ EditForm
    \/ ExportBookData

\* the app started on a sampled list
SpecSample == AppInit /\ [][SampleNext]_vars

-----------------------------------------------------------------------------
(* Statements about the identifier parsing *)

NoDuplicates(l) == \A a, b \in 1..Len(l) : l[a] = l[b] => a = b

\* l without the later repetitions of each element
RECURSIVE FirstOccurrences(_)
FirstOccurrences(l) ==
    IF l = <<>> THEN <<>>
    ELSE LET rest == FirstOccurrences(SubSeq(l, 1, Len(l) - 1))
             last == l[Len(l)]
         IN  IF \E k \in 1..Len(rest) : rest[k] = last THEN rest ELSE Append(rest, last)

\* C1: the identifier sequence that is split into chunks and queried holds no
\* empty token, no token twice, and the tokens of the text in order of first
\* occurrence.
C1_QueriedIsDeduplicated ==
    normOutcome = "queried" =>
        /\ \A k \in 1..Len(queried) : queried[k] # <<>>
        /\ NoDuplicates(queried)
        /\ queried = FirstOccurrences(parse_isbn_list(isbn_string(isbn_text)))

-----------------------------------------------------------------------------
(* Statements about the document matching of fetch_books_by_isbns *)

\* seed number k of d is a string holding '/isbn/' whose trailing token is in b
SeedNames(d, b, k) ==
    /\ seeds_of(d)[k].isStr
    /\ Contains(seeds_of(d)[k].s, IsbnMarker)
    /\ InBatch(SplitLast(seeds_of(d)[k].s, IsbnMarker), b)

HasSeedMember(d, b) == \E k \in 1..Len(seeds_of(d)) : SeedNames(d, b, k)

FirstSeedMember(d, b) ==
    LET k == CHOOSE n \in 1..Len(seeds_of(d)) :
                 SeedNames(d, b, n) /\ \A m \in 1..(n - 1) : ~SeedNames(d, b, m)
    IN  SplitLast(seeds_of(d)[k].s, IsbnMarker)

HasListedMember(d, b) ==
    d.isbn.tag = "list" /\ \E k \in 1..Len(d.isbn.items) : InBatch(d.isbn.items[k], b)

FirstListedMember(d, b) ==
    d.isbn.items[CHOOSE n \in 1..Len(d.isbn.items) :
                     /\ InBatch(d.isbn.items[n], b)
                     /\ \A m \in 1..(n - 1) : ~InBatch(d.isbn.items[m], b)]

\* d names a member of b in a seed and a different member of b in its isbn field
SeedAndListDisagree(d, b) ==
    /\ HasSeedMember(d, b)
    /\ HasListedMember(d, b)
    /\ \E k \in 1..Len(d.isbn.items) :
          InBatch(d.isbn.items[k], b) /\ d.isbn.items[k] # FirstSeedMember(d, b)

Unmatched(d, b) == ~HasSeedMember(d, b) /\ ~HasListedMember(d, b)

LastRequest == requests[Len(requests)]

\* the step that handles one document of a response, shortcut or not
DocStep == fpc = "resp" /\ resp.kind = "ok" /\ j' = j + 1

\* the step appends exactly one record, carrying identifier x and its cover URLs
AppendsRecordFor(x) ==
    /\ Len(books') = Len(books) + 1
    /\ SubSeq(books', 1, Len(books)) = books
    /\ books'[Len(books')].isbn = <<x>>
    /\ books'[Len(books')].cover_url_large = cover_url(x, "L")

\* C2: a chunk of exactly one identifier answered by exactly one document
\* always yields a record for that identifier, whatever the document holds.
C2_SinglePairAlwaysYieldsRecord ==
    (fpc = "loop" /\ resp.kind = "ok" /\ is_single_pair(batch, resp) /\ j = 1) =>
        /\ Len(books) = LastRequest.before + 1
        /\ books[Len(books)].isbn = <<batch[1]>>

\* C3: outside the single-pair shortcut, a document with a seed naming a chunk
\* member yields a record carrying the first seed-derived member, whatever its
\* isbn field lists; the isbn field decides (first listed member) only when no
\* seed names a chunk member. No record is built only when building it raises.
C3_SeedMatchWins ==
    [][ (DocStep /\ ~is_single_pair(batch, resp)) =>
          LET d == doc'[1]
          IN  /\ (HasSeedMember(d, batch) /\ ~description_raises(d)) =>
                     AppendsRecordFor(FirstSeedMember(d, batch))
              /\ (~HasSeedMember(d, batch) /\ HasListedMember(d, batch)
                    /\ ~description_raises(d)) =>
                     AppendsRecordFor(FirstListedMember(d, batch))
              /\ SeedAndListDisagree(d, batch) =>
                     \/ books' = books /\ description_raises(d)
                     \/ AppendsRecordFor(FirstSeedMember(d, batch)) ]_vars

\* C3 witness: a document naming one member in a seed and another in its isbn
\* field has just been turned into a record carrying the seed's member
C3_Witness ==
    /\ fpc = "resp" /\ resp.kind = "ok" /\ ~is_single_pair(batch, resp)
    /\ j >= 1 /\ doc # None
    /\ SeedAndListDisagree(doc[1], batch)
    /\ Len(books) > LastRequest.before
    /\ books[Len(books)].isbn = <<FirstSeedMember(doc[1], batch)>>
    /\ FirstSeedMember(doc[1], batch) # FirstListedMember(doc[1], batch)

\* C4 as stated: whatever the chunk and the response, a document that names no
\* chunk member in its seeds or its isbn field adds no record.
C4_UnmatchedNeverRecorded ==
    [][ (DocStep /\ Unmatched(doc'[1], batch)) => books' = books ]_vars

\* C4 amended: where the single-pair shortcut does not apply, a document that
\* names no chunk member in its seeds or its isbn field adds no record and the
\* loop goes on to the next document.
C4_UnmatchedDiscardedOutsideShortcut ==
    [][ (DocStep /\ ~is_single_pair(batch, resp) /\ Unmatched(doc'[1], batch)) =>
            books' = books /\ fpc' = "resp" /\ i' = i ]_vars

\* C4 witness: the second document of a response was unmatched and dropped after
\* the first one had given a record
C4_Witness ==
    /\ fpc = "resp" /\ resp.kind = "ok" /\ ~is_single_pair(batch, resp)
    /\ j = 2 /\ doc # None
    /\ Unmatched(doc[1], batch)
    /\ Len(books) = LastRequest.before + 1

-----------------------------------------------------------------------------
(* Statements about the batch loop of fetch_books_by_isbns *)

NumChunks(n) == (n + batch_size - 1) \div batch_size

\* chunk number k of list l, by position
KthChunk(l, k) ==
    [m \in 1..Min(batch_size, Len(l) - (k - 1) * batch_size) |->
        l[(k - 1) * batch_size + m]]

\* len(books) when the records of request k end
SegmentEnd(k) == IF k < Len(requests) THEN requests[k + 1].before ELSE Len(books)

\* C5: a chunk whose request fails adds no record and is requested once, the
\* later chunks are still requested, and the returned list is made of the
\* records of the chunks, chunk after chunk.
C5_FailedChunkIsSkipped ==
    /\ \A k \in 1..Len(requests) :
          /\ requests[k].batch = KthChunk(isbn_list, k)
          /\ requests[k].before <= SegmentEnd(k)
          /\ (requests[k].kind \in FailureKinds /\ (k < Len(requests) \/ fpc # "resp"))
                => SegmentEnd(k) = requests[k].before
          /\ \A n \in (requests[k].before + 1)..SegmentEnd(k) :
                InBatch(books[n].isbn[1], requests[k].batch)
    /\ requests # <<>> => requests[1].before = 0
    /\ fpc = "done" => Len(requests) = NumChunks(Len(isbn_list))

\* C5 witness: the first chunk failed, the second was still requested and gave
\* the only record returned
C5_Witness ==
    /\ fpc = "done"
    /\ Len(requests) = 2
    /\ requests[1].kind \in FailureKinds
    /\ requests[2].kind = "ok"
    /\ Len(books) = 1

-----------------------------------------------------------------------------
(* Statements about export_book_data *)

Exported == last_op = "export" /\ printed # None

Payload == printed[1].data

BookSelected == books_data_list # <<>> /\ current_book_index # -1

\* the export ended in a reported failure and printed nothing
ExportFailed == printed = None /\ dialog.level \in {"warning", "error"}

\* the comma-separated pieces of the category field, trimmed, blank ones dropped
CategoryTokens ==
    LET pieces == SplitComma(form.categories_strapi_ids)
        kept   == {k \in 1..Len(pieces) : Strip(pieces[k]) # <<>>}
        nth(n) == CHOOSE k \in kept : Cardinality({m \in kept : m < k}) = n - 1
    IN  [n \in 1..Cardinality(kept) |-> Strip(pieces[nth(n)])]

HasBadCategory == \E n \in 1..Len(CategoryTokens) : ~IsIntLiteral(CategoryTokens[n])

FirstBadCategory ==
    CategoryTokens[CHOOSE n \in 1..Len(CategoryTokens) :
                       /\ ~IsIntLiteral(CategoryTokens[n])
                       /\ \A m \in 1..(n - 1) : IsIntLiteral(CategoryTokens[m])]

HasBadCover == form.cover_strapi_id # <<>> /\ ~IsIntLiteral(form.cover_strapi_id)

OwnerConverts == IsIntLiteral(form.users_permissions_user)

PriceConverts ==
    form.book_type # "For Sale" \/ form.price = <<>> \/ IsFloatLiteral(form.price)

\* the fields of the form that int() or float() would reject
RejectedInputs ==
    (IF OwnerConverts THEN {} ELSE {form.users_permissions_user})
    \cup (IF PriceConverts THEN {} ELSE {form.price})
    \cup {CategoryTokens[n] : n \in {m \in 1..Len(CategoryTokens) :
                                        ~IsIntLiteral(CategoryTokens[m])}}
    \cup (IF HasBadCover THEN {form.cover_strapi_id} ELSE {})

\* C6: with an empty owner id the export ends in a reported failure and prints
\* no payload, whatever the other fields hold; with a record on display the
\* failure is the "owner is required" warning.
C6_EmptyOwnerAborts ==
    (last_op = "export" /\ form.users_permissions_user = <<>>) =>
        /\ ExportFailed
        /\ BookSelected => dialog = OwnerRequiredWarning

\* C6 witness: a record is on display, owner id empty, every other numeric field
\* holds something int() rejects, and the export gave the warning
C6_Witness ==
    /\ last_op = "export"
    /\ BookSelected
    /\ form.users_permissions_user = <<>>
    /\ HasBadCategory /\ HasBadCover
    /\ dialog = OwnerRequiredWarning
    /\ printed = None

\* C7: a printed payload has the key "price" exactly when the type is
\* "For Sale"; its value is then the number in the price field, or zero for an
\* empty price field.
C7_PriceOnlyForSale ==
    Exported =>
        /\ "price" \in DOMAIN Payload <=> form.book_type = "For Sale"
        /\ "price" \in DOMAIN Payload =>
              Payload.price = (IF form.price = <<>> THEN FloatZero
                               ELSE FloatValue(form.price))

\* C7 witness: type "For Swap" with the price field filled: exported, no "price"
C7_Witness ==
    /\ Exported
    /\ form.book_type = "For Swap"
    /\ form.price = <<"9", ".", "5">>
    /\ "price" \notin DOMAIN Payload

\* C8: a category token or a cover id that is no integer makes the export end
\* in a reported failure with no payload; the dialog names an input that was
\* rejected, which is the first bad category token (or the cover id) as soon as
\* the owner id and the price convert.
C8_NonIntegerAborts ==
    (last_op = "export" /\ (HasBadCategory \/ HasBadCover)) =>
        /\ ExportFailed
        /\ (BookSelected /\ form.users_permissions_user # <<>>) =>
              /\ dialog.title = "Input Error"
              /\ dialog.literal # None
              /\ dialog.literal[1] \in RejectedInputs
        /\ (BookSelected /\ OwnerConverts /\ PriceConverts /\ HasBadCategory) =>
              dialog = InvalidNumberError(FirstBadCategory)
        /\ (BookSelected /\ OwnerConverts /\ PriceConverts /\ ~HasBadCategory) =>
              dialog = InvalidNumberError(form.cover_strapi_id)

\* C8 witness: category ids "1, 2,x" with a valid owner id: the dialog names x
C8_Witness ==
    /\ last_op = "export"
    /\ BookSelected /\ OwnerConverts /\ PriceConverts
    /\ form.categories_strapi_ids = <<"1", ",", " ", "2", ",", "x">>
    /\ dialog = InvalidNumberError(<<"x">>)
    /\ printed = None

\* C9: a printed payload has no key "categories" when the category field is
\* blank, and otherwise holds the integers of the non-empty tokens in input
\* order; the list is never empty.
C9_CategoriesNeverEmpty ==
    Exported =>
        /\ "categories" \in DOMAIN Payload <=> Strip(form.categories_strapi_ids) # <<>>
        /\ "categories" \in DOMAIN Payload =>
              /\ Payload.categories # <<>>
              /\ Payload.categories =
                    [n \in 1..Len(CategoryTokens) |-> IntValue(CategoryTokens[n])]

-----------------------------------------------------------------------------
(* Statements about the description lookup of load_book_data *)

ShownBook == books_data_list[current_book_index + 1]

\* C10 as stated: after a failed detail lookup the record on display still has
\* description_loaded false.
C10_FailedLookupLeavesFlagFalse ==
    lookup \in DetailFailures => ~ShownBook.description_loaded

\* C10 amended: a failed detail lookup stores the error text as the description
\* and sets description_loaded, and no record that is marked as loaded is looked
\* up or changed when it is loaded again.
C10_FailedLookupMarksLoaded ==
    [][ /\ lookup' \in DetailFailures =>
              /\ books_data_list'[current_book_index' + 1].description_loaded
              /\ Head(books_data_list'[current_book_index' + 1].description)
                    = "Error fetching description: "
        /\ (/\ last_op' \in {"next", "prev"}
            /\ index_valid(books_data_list, current_book_index')
            /\ books_data_list[current_book_index' + 1].description_loaded) =>
              /\ lookup' = "none"
              /\ books_data_list' = books_data_list ]_vars

\* C10 witness: the first record's lookup failed; the operator moved on and came
\* back to it, and it was shown with its error text without a new lookup
C10_Witness ==
    /\ last_op = "prev"
    /\ current_book_index = 0
    /\ lookup = "none"
    /\ dialog = NoDialog
    /\ ShownBook.description_loaded
    /\ ShownBook.description # <<>>
    /\ Head(ShownBook.description) = "Error fetching description: "

-----------------------------------------------------------------------------
(* Statements about the records of fetch_books_by_isbns *)

\* the requests whose segment of books holds record number n
RequestsOf(n) ==
    {k \in 1..Len(requests) : requests[k].before < n /\ n <= SegmentEnd(k)}

\* C11: every record has a non-empty identifier list whose members all belong to
\* the chunk whose response held the record's document, and both cover URLs are
\* built from that identifier.
C11_IdentifiersFromOwnChunk ==
    \A n \in 1..Len(books) :
        /\ books[n].isbn # <<>>
        /\ RequestsOf(n) # {}
        /\ \A k \in RequestsOf(n) :
              /\ requests[k].kind = "ok"
              /\ \A m \in 1..Len(books[n].isbn) :
                    InBatch(books[n].isbn[m], requests[k].batch)
        /\ books[n].cover_url_medium = cover_url(books[n].isbn[1], "M")
        /\ books[n].cover_url_large = cover_url(books[n].isbn[1], "L")

\* C11 witness: a full chunk gave a record through the document scan and the
\* chunk of one after it gave a record through the single-pair shortcut
C11_Witness ==
    /\ fpc = "done"
    /\ Len(requests) = 2
    /\ Len(requests[1].batch) = batch_size
    /\ is_single_pair(requests[2].batch, resp)
    /\ requests[2].before >= 1
    /\ Len(books) = requests[2].before + 1
    /\ books[1].isbn # books[Len(books)].isbn

-----------------------------------------------------------------------------
(* Statements about the description of a record *)

\* the fallbacks below the explicit first-sentence value, in priority order
LowerDescription(d) ==
    IF Truthy(d.first_sentence) THEN d.first_sentence[1][1]
    ELSE IF d.first_publish_year # None THEN published_text(d)
    ELSE <<"Description not available.">>

\* the descriptions the priority order allows for d: an explicit value that is
\* present but empty may count as the document's value or as no value
ExpectedDescriptions(d) ==
    IF Truthy(d.first_sentence_value) THEN {d.first_sentence_value[1]}
    ELSE IF d.first_sentence_value # None
    THEN {d.first_sentence_value[1], LowerDescription(d)}
    ELSE {LowerDescription(d)}

\* the document of this step is one a record is built for
MatchedDoc == is_single_pair(batch, resp) \/ ~Unmatched(doc'[1], batch)

\* C12: every matched document, whatever its first_sentence_value,
\* first_sentence and first_publish_year, gives a record whose description
\* follows the priority order; building it never fails the document or the chunk.
C12_DescriptionByPriority ==
    [][ (DocStep /\ MatchedDoc) =>
            /\ Len(books') = Len(books) + 1
            /\ books'[Len(books')].description \in ExpectedDescriptions(doc'[1])
            /\ ~is_single_pair(batch, resp) => fpc' = "resp" ]_vars

-----------------------------------------------------------------------------
(* Statements about download_covers_to_folder *)

DownloadEnded == dl_pc \in {"returned", "NameError", "UnboundLocalError"}

\* the positions of l whose record has a cover URL, in order
RECURSIVE PositionsWithCover(_)
PositionsWithCover(l) ==
    IF l = <<>> THEN <<>>
    ELSE LET rest == PositionsWithCover(SubSeq(l, 1, Len(l) - 1))
         IN  IF has_cover_url(l[Len(l)]) THEN Append(rest, Len(l)) ELSE rest

\* C13: whatever the records and the outcome of each download, the function
\* runs through the whole list and returns, every record with a cover URL has
\* been attempted, in order, and each failed download has its own log line.
C13_FailuresDoNotAbortBatch ==
    DownloadEnded =>
        /\ dl_pc = "returned"
        /\ attempts = PositionsWithCover(dl_list)
        /\ \A n \in 1..Len(attempts) :
              \E k \in 1..Len(dl_log) : dl_log[k].item = attempts[n]

-----------------------------------------------------------------------------
(* Statements about the partition into chunks *)

\* the chunks queried so far, one after another
RECURSIVE QueriedSoFar(_)
QueriedSoFar(k) ==
    IF k = 0 THEN <<>> ELSE QueriedSoFar(k - 1) \o requests[k].batch

\* C14: the queries are made on consecutive chunks of the identifier list, in
\* the order of the list, each of at most batch_size identifiers and every one
\* but the last of exactly batch_size; at the end every identifier was queried
\* once.
C14_ConsecutiveChunksInOrder ==
    /\ \A k \in 1..Len(requests) :
          /\ requests[k].batch # <<>>
          /\ Len(requests[k].batch) <= batch_size
          /\ k < Len(requests) => Len(requests[k].batch) = batch_size
    /\ Len(QueriedSoFar(Len(requests))) <= Len(isbn_list)
    /\ QueriedSoFar(Len(requests))
          = SubSeq(isbn_list, 1, Len(QueriedSoFar(Len(requests))))
    /\ fpc = "done" => QueriedSoFar(Len(requests)) = isbn_list

\* C14 witness: 120 identifiers were queried as chunks of 50, 50 and 20
C14_Witness ==
    /\ fpc = "done"
    /\ Len(isbn_list) = 2 * batch_size + 20
    /\ Len(requests) = 3
    /\ Len(requests[1].batch) = batch_size
    /\ Len(requests[2].batch) = batch_size
    /\ Len(requests[3].batch) = 20
    /\ requests[3].batch[1] = isbn_list[2 * batch_size + 1]

-----------------------------------------------------------------------------
(* Statements about the returned list *)

\* C15: the returned list holds one record per found identifier: no two of its
\* records carry the same matched identifier.
C15_OneRecordPerIdentifier ==
    fpc = "done" =>
        \A a, b \in 1..Len(books) : books[a].isbn = books[b].isbn => a = b

-----------------------------------------------------------------------------
(* Statements about the frame of export_book_data *)

\* the form holds something the validation of export_book_data refuses
FormFailsValidation == form.users_permissions_user = <<>> \/ RejectedInputs # {}

\* C16: an export that fails validation (owner id empty, or an owner id, price,
\* category id or cover id that is no number) is reported by a warning or error
\* dialog, prints nothing, and leaves the record list, every field of every
\* record and the current index as they were.
C16_FailedExportChangesNothing ==
    [][ (last_op' = "export" /\ FormFailsValidation) =>
            /\ dialog'.level \in {"warning", "error"}
            /\ printed' = None
            /\ books_data_list' = books_data_list
            /\ current_book_index' = current_book_index ]_vars

\* C16 witness: with two records loaded and the second on display, an export
\* with a cover id that is no integer was refused
C16_Witness ==
    /\ last_op = "export"
    /\ Len(books_data_list) >= 2
    /\ current_book_index = 1
    /\ ~HasBadCategory /\ HasBadCover /\ OwnerConverts /\ PriceConverts
    /\ dialog = InvalidNumberError(form.cover_strapi_id)
    /\ printed = None

-----------------------------------------------------------------------------
(* Statements about the fetch action of the app *)

\* the text holds nothing but commas, newlines and whitespace
OnlySeparators(text) ==
    \A k \in 1..Len(text) : text[k] \in Whitespace \cup {","}

\* C17: a fetch on a text that holds no identifier ends in the "Input Error"
\* warning; no list is passed on to be queried, and the record list, the
\* current index and the form stay as they were.
C17_EmptyInputChangesNothing ==
    [][ (last_op' = "fetch" /\ OnlySeparators(isbn_text')) =>
            /\ dialog'.level = "warning"
            /\ dialog'.title = "Input Error"
            /\ normOutcome' \in {"empty_input", "no_valid"}
            /\ queried' = <<>>
            /\ lookup' = "none"
            /\ books_data_list' = books_data_list
            /\ current_book_index' = current_book_index
            /\ form' = form ]_vars

\* C17 witness: with two records loaded and the second on display, a fetch on
\* a text of a comma and a newline was refused
C17_Witness ==
    /\ last_op = "fetch"
    /\ isbn_text = <<",", "\n">>
    /\ dialog = InputWarning("No valid ISBNs entered after parsing.")
    /\ Len(books_data_list) = 2
    /\ current_book_index = 1

-----------------------------------------------------------------------------
(* Statements about the current index *)

\* the index is -1 exactly for an empty list and otherwise a position of the list
IndexInRange ==
    /\ current_book_index = -1 <=> books_data_list = <<>>
    /\ books_data_list # <<>> =>
          0 <= current_book_index /\ current_book_index < Len(books_data_list)

\* C18: whatever the operator does, the current index is -1 exactly when the
\* record list is empty and otherwise a position of the list; next at the last
\* record and previous at the first leave it unchanged, and a fetch that
\* returns a record sets it to 0.
C18_IndexStaysInRange ==
    [][ /\ IndexInRange
        /\ IndexInRange'
        /\ (last_op' = "next" /\ current_book_index = Len(books_data_list) - 1) =>
              current_book_index' = current_book_index
        /\ (last_op' = "prev" /\ current_book_index <= 0) =>
              current_book_index' = current_book_index
        /\ (last_op' = "fetch" /\ dialog'.title = "Success") =>
              books_data_list' # <<>> /\ current_book_index' = 0
        /\ (last_op' = "fetch" /\ dialog'.title = "Not Found") =>
              books_data_list' = <<>> /\ current_book_index' = -1 ]_vars

\* C18 witness: next was pressed on the second and last record of the list
C18_Witness ==
    /\ last_op = "next"
    /\ dialog = NavDialog("This is the last book.")
    /\ Len(books_data_list) = 2
    /\ current_book_index = 1

====
